---- MODULE Spec2Model ----
(***************************************************************************)
(* Weather Underground current-conditions logger (wu-current-logger.ts,    *)
(* utils.ts): the poll scheduler, the sampling cycle logOnce, the per-day  *)
(* log and daily-high aggregate files, and fetchWithRetry.                 *)
(*                                                                         *)
(* Three specifications share this module:                                 *)
(*   Spec      the scheduler, the cycles and the files, polling every      *)
(*             minute; a cycle's call of fetchWithRetry is one step that   *)
(*             resolves or rejects;                                        *)
(*   ClockSpec the scheduler against the wall clock, for every start time  *)
(*             and poll interval tried, with the feed down;                *)
(*   FetchSpec one call of fetchWithRetry, attempt by attempt.             *)
(* LiveSpec is Spec with the fairness of the event loop.                   *)
(***************************************************************************)
EXTENDS Integers, Sequences, FiniteSets, TLC

VARIABLES
    phase,        \* startLogger: "start", "aligning", "firstCycle", "running", "exited"
    exitCode,     \* process.exitCode (0 until something sets it)
    now,          \* Date.now() in ms, kept modulo the poll interval
    pollMinutes,  \* getPollMinutes()
    configOk,     \* WU_API_KEY and WU_GEOCODES are both set
    sleepLeft,    \* ms until startLogger's sleep(sleepLeft) resolves (0: not sleeping)
    timerLeft,    \* ms until the setInterval timer fires (-1: not armed)
    cyc,          \* the logOnce invocations in progress, by slot
    logs,         \* wu_current_london_<day>.jsonl, by day: the appended records
    aggs,         \* wu_daily_high_<day>.json, by day: the file's content
    call,         \* FetchSpec: the one fetchWithRetry call
    probe         \* SelectSpec, LoadSpec, UpdateSpec: one call of a function of
                  \* utils.ts / one pass of logOnce's update, its arguments and result

vars == <<phase, exitCode, now, pollMinutes, configOk,
          sleepLeft, timerLeft, cyc, logs, aggs, call, probe>>

schedVars == <<phase, exitCode, now, pollMinutes, configOk,
               sleepLeft, timerLeft, cyc, logs, aggs, probe>>

progVars == <<phase, exitCode, now, pollMinutes, configOk,
              sleepLeft, timerLeft, cyc, logs, aggs, call>>

-----------------------------------------------------------------------------
(* Bounds of the model *)

\* logOnce invocations that can be in progress at once
MaxInFlight == 2
\* records appended over a run (all days together)
MaxRecords == 3
\* the largest POLL_MINUTES tried
MaxPollMinutes == 2
\* the largest "attempts" argument tried in FetchSpec
MaxAttemptsArg == 4
\* the longest entries list tried in SelectSpec
MaxEntries == 2
\* the largest samples value of an aggregate file tried in LoadSpec
MaxSamples == 2

-----------------------------------------------------------------------------
(* JSON values: null, numbers and strings keep their type, as typeof and ?? *)
(* tell them apart.                                                         *)

JNull == [t |-> "null"]
Num(n) == [t |-> "num", n |-> n]
Str(s) == [t |-> "str", s |-> s]

\* typeof v === "number"
IsNumber(v) == v.t = "num"

\* a ?? b
Coalesce(a, b) == IF a.t = "null" THEN b ELSE a

\* the truthiness test of a string-or-null value: null and "" are falsy
Truthy(v) == v.t = "num" \/ (v.t = "str" /\ v.s # "")

-----------------------------------------------------------------------------
(* Configuration *)

DEFAULT_TARGET_ID == "51.50999832,-0.13"
DEFAULT_TIMEZONE == "Europe/London"

\* one minute, the unit of POLL_MINUTES (pollMinutes * 60 * 1000)
MinuteMs == 60 * 1000

IntervalMs(minutes) == minutes * MinuteMs

\* process start times: on a boundary of the minute, just after, half way, just before
StartTimes ==
    { m * MinuteMs + off : m \in 0 .. MaxPollMinutes - 1,
                           off \in {0, 1, MinuteMs \div 2, MinuteMs - 1} }

\* The clock is kept modulo the poll interval: what the scheduler's alignment
\* is about is "now % intervalMs".
Wrap(ms, minutes) == ms % IntervalMs(minutes)

-----------------------------------------------------------------------------
(* Calendar days and timestamps *)

Days == {"2024-05-01", "2024-05-02"}

\* the day formatDateParts gives for "new Date()" throughout the run
Today == "2024-05-02"

\* validTimeLocal strings the feed sends that "new Date(s)" can parse,
\* with the day formatDateParts gives for each in the configured zone
TimeStamps == {"2024-05-01T09:00:00", "2024-05-01T12:00:00", "2024-05-02T09:00:00"}

formatDateParts(s) ==
    CASE s = "2024-05-01T09:00:00" -> "2024-05-01"
      [] s = "2024-05-01T12:00:00" -> "2024-05-01"
      [] s = "2024-05-02T09:00:00" -> "2024-05-02"

\* Number.isNaN(new Date(s).getTime()) is false
Parses(s) == s \in TimeStamps

\* getLocalDateString(validTimeLocal, timeZone); nowDay is the day of new Date().
\* The caller passes "record.validTimeLocal ?? undefined": null counts as absent.
getLocalDateString(validTimeLocal, nowDay) ==
    IF ~Truthy(validTimeLocal) THEN nowDay
    ELSE IF validTimeLocal.t = "str" /\ Parses(validTimeLocal.s)
         THEN formatDateParts(validTimeLocal.s)
         ELSE nowDay

-----------------------------------------------------------------------------
(* calculateNextDelay *)

\* Math.ceil(a / b) for a >= 0, b > 0
CeilDiv(a, b) == (a + b - 1) \div b

Max(a, b) == IF a >= b THEN a ELSE b

\* calculateNextDelay with Math.floor in place of Math.ceil
calculateNextDelay_floor(intervalMinutes, nowMs) ==
    LET intervalMs == intervalMinutes * 60 * 1000
        next == (nowMs \div intervalMs) * intervalMs
    IN  Max(next - nowMs, 0)

calculateNextDelay(intervalMinutes, nowMs) ==
    LET intervalMs == intervalMinutes * 60 * 1000
        next == CeilDiv(nowMs, intervalMs) * intervalMs
    IN  Max(next - nowMs, 0)

-----------------------------------------------------------------------------
(* The feed's payload *)

\* a CompositeEntry: id, v3-location-point.location, v3-wx-observations-current;
\* an absent part is JNull. NullEntry is an array element that is JSON null.
Entry(id, loc, obs) == [k |-> "object", id |-> id, loc |-> loc, obs |-> obs]
NullEntry == [k |-> "null"]

Location(city, cc) == [t |-> "loc", city |-> city, countryCode |-> cc]
Observation(temp, vtl) == [t |-> "obs", temperature |-> temp, validTimeLocal |-> vtl]

London == Location("London", "GB")
Paris == Location("Paris", "FR")

\* what the feed reports: a lower and a higher reading of one day, and a
\* reading with neither temperature nor time
Observations ==
    { Observation(Num(10), Str("2024-05-01T09:00:00")),
      Observation(Num(15), Str("2024-05-01T12:00:00")),
      Observation(JNull, JNull) }

NotArray == [k |-> "notArray", items |-> <<>>]
Array(items) == [k |-> "array", items |-> items]

Payloads ==
    { NotArray,
      Array(<<>>),
      Array(<<NullEntry>>),
      Array(<<Entry(Str("other"), Paris, Observation(Num(10), JNull))>>),
      Array(<<Entry(Str("other"), Paris, JNull), NullEntry>>),
      Array(<<Entry(Str(DEFAULT_TARGET_ID), JNull, Observation(Num(10), JNull))>>),
      Array(<<Entry(Str(DEFAULT_TARGET_ID), London, JNull)>>) }
    \cup { Array(<<Entry(Str(DEFAULT_TARGET_ID), London, o)>>) : o \in Observations }
    \cup { Array(<<Entry(JNull, London, Observation(Num(10), Str("2024-05-01T09:00:00"))),
                   Entry(Str(DEFAULT_TARGET_ID), London, o)>>) : o \in Observations }
    \cup { Array(<<Entry(Str("other"), Paris, Observation(Num(15), JNull)),
                   Entry(JNull, London, o)>>) : o \in Observations }

-----------------------------------------------------------------------------
(* selectLocation *)

\* the least index of a set of indices, 0 when the set is empty
FirstIndex(hits) ==
    IF hits = {} THEN 0 ELSE CHOOSE i \in hits : \A j \in hits : i <= j

NoEntry == [k |-> "none"]
Thrown == [k |-> "TypeError"]

\* entries.find(...), matching being the indices of the elements the callback
\* accepts. The callback reads a property of each element in turn: of a null
\* element that is a TypeError, unless an earlier element already matched.
Find(entries, matching) ==
    LET hit == FirstIndex(matching)
        bad == FirstIndex({ i \in 1 .. Len(entries) : entries[i].k = "null" })
    IN  IF hit # 0 /\ (bad = 0 \/ hit < bad) THEN entries[hit]
        ELSE IF bad # 0 THEN Thrown
        ELSE NoEntry

\* the fallback search made first, the id match only when it finds nothing
selectLocation_fallbackFirst(entries, targetId) ==
    LET objects == { i \in 1 .. Len(entries) : entries[i].k = "object" }
        directMatch == Find(entries, { i \in objects : entries[i].id = Str(targetId) })
        fallback == Find(entries, { i \in objects :
                        /\ entries[i].loc # JNull
                        /\ entries[i].loc.city = "London"
                        /\ entries[i].loc.countryCode = "GB" })
    IN  IF fallback # NoEntry THEN fallback ELSE directMatch

selectLocation(entries, targetId) ==
    LET objects == { i \in 1 .. Len(entries) : entries[i].k = "object" }
        directMatch == Find(entries, { i \in objects : entries[i].id = Str(targetId) })
        fallback == Find(entries, { i \in objects :
                        /\ entries[i].loc # JNull
                        /\ entries[i].loc.city = "London"
                        /\ entries[i].loc.countryCode = "GB" })
    IN  IF directMatch # NoEntry THEN directMatch ELSE fallback

-----------------------------------------------------------------------------
(* The record of a sample and the daily aggregate *)

NoRecord == [id |-> "", city |-> JNull, temperatureC |-> JNull, validTimeLocal |-> JNull]

\* lines 133-150; the fields copied from the observation with "?? null" and
\* read by nothing else (humidity, wind, pressure, ...) are left out
BuildRecord(entry, targetId) ==
    [ id             |-> IF entry.id = JNull THEN targetId ELSE entry.id.s,
      city           |-> Str(entry.loc.city),
      temperatureC   |-> Coalesce(entry.obs.temperature, JNull),
      validTimeLocal |-> Coalesce(entry.obs.validTimeLocal, JNull) ]

DailyHigh(d, tz, n, high, highAt, last, lastAt) ==
    [ date_local |-> d, timezone |-> tz, samples |-> n,
      high_temperatureC |-> high, high_at_validTimeLocal |-> highAt,
      last_seen_temperatureC |-> last, last_seen_validTimeLocal |-> lastAt ]

FreshDailyHigh(d, tz) == DailyHigh(d, tz, 0, JNull, JNull, JNull, JNull)

NoDailyHigh == FreshDailyHigh("", "")

\* the content of an aggregate file: absent, empty (opened for writing and
\* truncated, nothing written yet), or the JSON text of a record
Absent == [state |-> "absent", json |-> NoDailyHigh]
Truncated == [state |-> "empty", json |-> NoDailyHigh]
\* a file fs.readFile cannot read (EACCES, EISDIR, ...), and one whose text
\* JSON.parse rejects
Unreadable == [state |-> "unreadable", json |-> NoDailyHigh]
Corrupt == [state |-> "corrupt", json |-> NoDailyHigh]

\* JSON.stringify(record, null, 2)
Stringify(record) == [state |-> "json", json |-> record]

\* readDailyHigh whose catch returns a record without the fallback key
readDailyHigh_unseeded(file, dateLocal, timeZone) ==
    IF file.state # "json" THEN NoDailyHigh
    ELSE file.json

\* readDailyHigh: fs.readFile rejects on a missing file and JSON.parse throws
\* on an empty one; both land in the catch. A file that parses was written by
\* writeDailyHigh, so date_local, timezone and samples are there and their
\* "??" defaults are not taken.
readDailyHigh(file, dateLocal, timeZone) ==
    IF file.state # "json" THEN FreshDailyHigh(dateLocal, timeZone)
    ELSE LET parsed == file.json
         IN  DailyHigh(parsed.date_local, parsed.timezone, parsed.samples,
                       IF IsNumber(parsed.high_temperatureC)
                           THEN parsed.high_temperatureC ELSE JNull,
                       Coalesce(parsed.high_at_validTimeLocal, JNull),
                       IF IsNumber(parsed.last_seen_temperatureC)
                           THEN parsed.last_seen_temperatureC ELSE JNull,
                       Coalesce(parsed.last_seen_validTimeLocal, JNull))

\* temperatureC > highTemperature, both numbers
Exceeds(temperatureC, highTemperature) == temperatureC.n > highTemperature.n

\* the update counting the sample twice
UpdatedDailyHigh_countsTwice(dailyHigh, record, dateLocal, timeZone) ==
    DailyHigh(dateLocal, timeZone, dailyHigh.samples + 2,
              dailyHigh.high_temperatureC, dailyHigh.high_at_validTimeLocal,
              IF IsNumber(record.temperatureC) THEN record.temperatureC ELSE JNull,
              Coalesce(record.validTimeLocal, JNull))

\* the update with the high taken from the aggregate alone, the sample ignored
UpdatedDailyHigh_ignoresSample(dailyHigh, record, dateLocal, timeZone) ==
    DailyHigh(dateLocal, timeZone, dailyHigh.samples + 1,
              dailyHigh.high_temperatureC, dailyHigh.high_at_validTimeLocal,
              IF IsNumber(record.temperatureC) THEN record.temperatureC ELSE JNull,
              Coalesce(record.validTimeLocal, JNull))

\* logOnce lines 159-182: the aggregate after folding one record in
UpdatedDailyHigh(dailyHigh, record, dateLocal, timeZone) ==
    LET temperatureC == record.temperatureC
        validTimeLocal == record.validTimeLocal
        replace == /\ IsNumber(temperatureC)
                   /\ \/ dailyHigh.high_temperatureC = JNull
                      \/ Exceeds(temperatureC, dailyHigh.high_temperatureC)
        highTemperature == IF replace THEN temperatureC
                           ELSE dailyHigh.high_temperatureC
        highAt == IF replace
                  THEN Coalesce(validTimeLocal, dailyHigh.high_at_validTimeLocal)
                  ELSE dailyHigh.high_at_validTimeLocal
    IN  DailyHigh(dateLocal, timeZone, dailyHigh.samples + 1,
                  highTemperature, Coalesce(highAt, JNull),
                  IF IsNumber(temperatureC) THEN temperatureC ELSE JNull,
                  Coalesce(validTimeLocal, JNull))

-----------------------------------------------------------------------------
(* logOnce: one sampling cycle, a step per await *)

Slots == 1 .. MaxInFlight

\* pc: "idle"   no invocation in this slot
\*     "mkdir"  awaiting ensureOutputDir          (line 102)
\*     "fetch"  awaiting fetchWithRetry           (line 108)
\*     "append" awaiting fs.appendFile            (line 154)
\*     "read"   awaiting readDailyHigh            (line 157)
\*     "write"  awaiting writeDailyHigh           (line 184)
\*     "done"   returned at the end; "failed" returned early after a caught
\*     failure (why says which); "threw" the promise was rejected
Idle == [pc |-> "idle", day |-> "", rec |-> NoRecord, upd |-> NoDailyHigh, why |-> ""]

\* the invocation at its first await: lines 97-102
Started == [Idle EXCEPT !.pc = "mkdir"]

InProgress(c) == c.pc \in {"mkdir", "fetch", "append", "read", "write"}
Returned(c) == c.pc \in {"done", "failed"}
Settled(c) == c.pc \in {"done", "failed", "threw"}

\* The reactions to a settled promise run before any other callback: while
\* an invocation has just settled, nothing else takes a step.
MicrotasksDrained == \A s \in Slots : ~Settled(cyc[s])

Alive == phase \in {"firstCycle", "running"} /\ MicrotasksDrained

RECURSIVE SumLen(_, _)
SumLen(f, S) ==
    IF S = {} THEN 0
    ELSE LET d == CHOOSE x \in S : TRUE IN Len(f[d]) + SumLen(f, S \ {d})

\* records in the logs, and about to be appended
RecordsInPlay == SumLen(logs, Days) + Cardinality({s \in Slots : cyc[s].pc = "append"})

\* the failure reported and thrown on instead of "return"
Abandoned_rethrows(c, why) == [Idle EXCEPT !.pc = "threw", !.why = why]

\* a caught failure: console.error(...); return   (lines 110-111, 115-116,
\* 121-122, 129-130)
Abandoned(c, why) == [Idle EXCEPT !.pc = "failed", !.why = why]

\* an error nothing in logOnce catches: the promise logOnce returned is rejected
Rejected(c, why) == [Idle EXCEPT !.pc = "threw", !.why = why]

\* lines 114-154, run when fetchWithRetry has resolved with data: the cycle
\* as it leaves this stretch of code
Examined(c, data, targetId, nowDay) ==
    IF data.k # "array" THEN Abandoned(c, "notArray")
    ELSE LET entry == selectLocation(data.items, targetId)
         IN  IF entry = Thrown THEN Rejected(c, "TypeError")
             ELSE IF entry = NoEntry THEN Abandoned(c, "notFound")
             ELSE IF entry.loc = JNull \/ entry.obs = JNull
                  THEN Abandoned(c, "missingData")
             ELSE LET record == BuildRecord(entry, targetId)
                  IN  [c EXCEPT !.pc = "append",
                                !.rec = record,
                                !.day = getLocalDateString(record.validTimeLocal, nowDay)]

\* ensureOutputDir resolved; lines 104-108: buildUrl throws inside the try
\* when the key or the geocodes are unset, else fetchWithRetry is called
MkdirDone(s) ==
    /\ Alive
    /\ cyc[s].pc = "mkdir"
    /\ cyc' = [cyc EXCEPT ![s] = IF configOk THEN [cyc[s] EXCEPT !.pc = "fetch"]
                                 ELSE Abandoned(cyc[s], "config")]
    /\ UNCHANGED <<phase, exitCode, now, pollMinutes, configOk,
                   sleepLeft, timerLeft, logs, aggs, call, probe>>

\* fs.mkdir rejected: line 102 is outside every try
MkdirFails(s) ==
    /\ Alive
    /\ cyc[s].pc = "mkdir"
    /\ cyc' = [cyc EXCEPT ![s] = Rejected(cyc[s], "mkdir")]
    /\ UNCHANGED <<phase, exitCode, now, pollMinutes, configOk,
                   sleepLeft, timerLeft, logs, aggs, call, probe>>

\* fetchWithRetry threw lastError: caught on line 109
FetchRejects(s) ==
    /\ Alive
    /\ cyc[s].pc = "fetch"
    /\ cyc' = [cyc EXCEPT ![s] = Abandoned(cyc[s], "fetchExhausted")]
    /\ UNCHANGED <<phase, exitCode, now, pollMinutes, configOk,
                   sleepLeft, timerLeft, logs, aggs, call, probe>>

\* fetchWithRetry returned the parsed body
FetchResolves(s) ==
    /\ Alive
    /\ cyc[s].pc = "fetch"
    /\ \E data \in Payloads :
          LET next == Examined(cyc[s], data, DEFAULT_TARGET_ID, Today)
          IN  /\ next.pc = "append" => RecordsInPlay < MaxRecords
              /\ cyc' = [cyc EXCEPT ![s] = next]
    /\ UNCHANGED <<phase, exitCode, now, pollMinutes, configOk,
                   sleepLeft, timerLeft, logs, aggs, call, probe>>

\* the record appended before the entry's location and observation are checked
AppendDone_thenChecks(s) ==
    /\ Alive
    /\ cyc[s].pc = "append"
    /\ logs' = [logs EXCEPT ![cyc[s].day] = Append(@, cyc[s].rec)]
    /\ cyc' = [cyc EXCEPT ![s] = IF cyc[s].rec.temperatureC = JNull
                                 THEN Abandoned(cyc[s], "missingData")
                                 ELSE [cyc[s] EXCEPT !.pc = "read"]]
    /\ UNCHANGED <<phase, exitCode, now, pollMinutes, configOk,
                   sleepLeft, timerLeft, aggs, call, probe>>

\* fs.appendFile resolved: the line is in the day's log; line 157 starts the read
AppendDone(s) ==
    /\ Alive
    /\ cyc[s].pc = "append"
    /\ logs' = [logs EXCEPT ![cyc[s].day] = Append(@, cyc[s].rec)]
    /\ cyc' = [cyc EXCEPT ![s].pc = "read"]
    /\ UNCHANGED <<phase, exitCode, now, pollMinutes, configOk,
                   sleepLeft, timerLeft, aggs, call, probe>>

AppendFails(s) ==
    /\ Alive
    /\ cyc[s].pc = "append"
    /\ cyc' = [cyc EXCEPT ![s] = Rejected(cyc[s], "append")]
    /\ UNCHANGED <<phase, exitCode, now, pollMinutes, configOk,
                   sleepLeft, timerLeft, logs, aggs, call, probe>>

\* What fs.readFile can find in the day's aggregate file: its content, or
\* nothing when another invocation's fs.writeFile has opened the file (flag
\* "w" truncates it) and not yet written its text
Readable(s) ==
    {aggs[cyc[s].day]}
    \cup {Truncated : t \in {u \in Slots \ {s} :
                                cyc[u].pc = "write" /\ cyc[u].day = cyc[s].day}}

\* readDailyHigh resolved with what the file held; lines 159-184 compute the
\* updated aggregate and start the write
ReadDone(s) ==
    /\ Alive
    /\ cyc[s].pc = "read"
    /\ \E file \in Readable(s) :
          LET dailyHigh == readDailyHigh(file, cyc[s].day, DEFAULT_TIMEZONE)
          IN  cyc' = [cyc EXCEPT ![s].pc = "write",
                                 ![s].upd = UpdatedDailyHigh(dailyHigh, cyc[s].rec,
                                                             cyc[s].day, DEFAULT_TIMEZONE)]
    /\ UNCHANGED <<phase, exitCode, now, pollMinutes, configOk,
                   sleepLeft, timerLeft, logs, aggs, call, probe>>

\* the aggregate written to the file of the day the write happens on
WriteDone_todaysFile(s) ==
    /\ Alive
    /\ cyc[s].pc = "write"
    /\ aggs' = [aggs EXCEPT ![Today] = Stringify(cyc[s].upd)]
    /\ cyc' = [cyc EXCEPT ![s] = [Idle EXCEPT !.pc = "done"]]
    /\ UNCHANGED <<phase, exitCode, now, pollMinutes, configOk,
                   sleepLeft, timerLeft, logs, call, probe>>

\* fs.writeFile has replaced the file's content and writeDailyHigh resolves:
\* logOnce returns
WriteDone(s) ==
    /\ Alive
    /\ cyc[s].pc = "write"
    /\ aggs' = [aggs EXCEPT ![cyc[s].day] = Stringify(cyc[s].upd)]
    /\ cyc' = [cyc EXCEPT ![s] = [Idle EXCEPT !.pc = "done"]]
    /\ UNCHANGED <<phase, exitCode, now, pollMinutes, configOk,
                   sleepLeft, timerLeft, logs, call, probe>>

WriteFails(s) ==
    /\ Alive
    /\ cyc[s].pc = "write"
    /\ cyc' = [cyc EXCEPT ![s] = Rejected(cyc[s], "write")]
    /\ UNCHANGED <<phase, exitCode, now, pollMinutes, configOk,
                   sleepLeft, timerLeft, logs, aggs, call, probe>>

-----------------------------------------------------------------------------
(* startLogger and the timers *)

FreeSlots == {s \in Slots : cyc[s].pc = "idle"}
LowestFree == CHOOSE s \in FreeSlots : \A t \in FreeSlots : s <= t

\* lines 188-196 up to the first await: the delay is computed; with no delay
\* to wait for, logOnce is called at once
StartLogger ==
    /\ phase = "start"
    /\ LET delay == calculateNextDelay(pollMinutes, now)
       IN  /\ sleepLeft' = delay
           /\ IF delay > 0
              THEN /\ phase' = "aligning"
                   /\ cyc' = cyc
              ELSE /\ phase' = "firstCycle"
                   /\ cyc' = [cyc EXCEPT ![1] = Started]
    /\ UNCHANGED <<exitCode, now, pollMinutes, configOk,
                   timerLeft, logs, aggs, call, probe>>

\* sleep(sleepLeft) resolved: line 196 calls logOnce
AlignmentElapses ==
    /\ phase = "aligning"
    /\ now' = Wrap(now + sleepLeft, pollMinutes)
    /\ phase' = "firstCycle"
    /\ cyc' = [cyc EXCEPT ![1] = Started]
    /\ sleepLeft' = 0
    /\ UNCHANGED <<exitCode, pollMinutes, configOk,
                   timerLeft, logs, aggs, call, probe>>

\* a startLogger that arms the timer when it calls the first logOnce, not
\* when that call has returned
FirstCycleSettles_timerArmedEarly ==
    /\ phase = "firstCycle"
    /\ InProgress(cyc[1]) \/ Returned(cyc[1])
    /\ phase' = "running"
    /\ timerLeft' = IntervalMs(pollMinutes)
    /\ cyc' = IF Returned(cyc[1]) THEN [cyc EXCEPT ![1] = Idle] ELSE cyc
    /\ UNCHANGED <<exitCode, now, pollMinutes, configOk,
                   sleepLeft, logs, aggs, call, probe>>

\* "await logOnce()" resumes: lines 198-200 arm the repeating timer
FirstCycleSettles ==
    /\ phase = "firstCycle"
    /\ Returned(cyc[1])
    /\ phase' = "running"
    /\ timerLeft' = IntervalMs(pollMinutes)
    /\ cyc' = [cyc EXCEPT ![1] = Idle]
    /\ UNCHANGED <<exitCode, now, pollMinutes, configOk,
                   sleepLeft, logs, aggs, call, probe>>

\* "await logOnce()" throws: startLogger rejects, lines 203-206 set the exit
\* code, and with no timer armed the process ends
FirstCycleRejects ==
    /\ phase = "firstCycle"
    /\ cyc[1].pc = "threw"
    /\ phase' = "exited"
    /\ exitCode' = 1
    /\ UNCHANGED <<now, pollMinutes, configOk,
                   sleepLeft, timerLeft, cyc, logs, aggs, call, probe>>

\* a tick that is skipped while an earlier invocation has not returned
Tick_skipsWhenBusy ==
    /\ phase = "running"
    /\ MicrotasksDrained
    /\ timerLeft = 0
    /\ \A s \in Slots : cyc[s].pc = "idle"
    /\ cyc' = [cyc EXCEPT ![LowestFree] = Started]
    /\ timerLeft' = IntervalMs(pollMinutes)
    /\ UNCHANGED <<phase, exitCode, now, pollMinutes, configOk,
                   sleepLeft, logs, aggs, call, probe>>

\* the timer fires: line 199 calls logOnce and drops its promise, whatever
\* the earlier invocations are doing (at most MaxInFlight of them at once)
Tick ==
    /\ phase = "running"
    /\ MicrotasksDrained
    /\ timerLeft = 0
    /\ FreeSlots # {}
    /\ cyc' = [cyc EXCEPT ![LowestFree] = Started]
    /\ timerLeft' = IntervalMs(pollMinutes)
    /\ UNCHANGED <<phase, exitCode, now, pollMinutes, configOk,
                   sleepLeft, logs, aggs, call, probe>>

\* an invocation started by the timer has returned: nothing awaits it
TimerCycleSettles(s) ==
    /\ phase = "running"
    /\ Returned(cyc[s])
    /\ cyc' = [cyc EXCEPT ![s] = Idle]
    /\ UNCHANGED <<phase, exitCode, now, pollMinutes, configOk,
                   sleepLeft, timerLeft, logs, aggs, call, probe>>

\* the promise dropped by "void logOnce()" is rejected: an unhandled
\* rejection, which ends the process with exit code 1 or is only reported,
\* as the runtime's unhandled-rejections mode has it
TimerCycleRejects(s) ==
    /\ phase = "running"
    /\ cyc[s].pc = "threw"
    /\ \/ /\ phase' = "exited"
          /\ exitCode' = 1
          /\ cyc' = cyc
       \/ /\ cyc' = [cyc EXCEPT ![s] = Idle]
          /\ UNCHANGED <<phase, exitCode>>
    /\ UNCHANGED <<now, pollMinutes, configOk,
                   sleepLeft, timerLeft, logs, aggs, call, probe>>

\* a minute passes with no timer due in it
AdvanceClock ==
    /\ Alive
    /\ timerLeft = -1 \/ timerLeft >= MinuteMs
    /\ now' = Wrap(now + MinuteMs, pollMinutes)
    /\ timerLeft' = IF timerLeft = -1 THEN -1 ELSE timerLeft - MinuteMs
    /\ UNCHANGED <<phase, exitCode, pollMinutes, configOk,
                   sleepLeft, cyc, logs, aggs, call, probe>>

-----------------------------------------------------------------------------
(* fetchWithRetry, attempt by attempt (FetchSpec) *)

NoError == [kind |-> "undefined", at |-> 0]
ErrorAt(kind, attempt) == [kind |-> kind, at |-> attempt]

\* pc: "idle" not called; "fetch" awaiting fetch(); "body" awaiting
\* response.json(); "sleep" awaiting sleep(backoffMs); "returned"; "threw"
NoCall == [pc |-> "idle", failing |-> FALSE, attempts |-> 0, attempt |-> 0,
           abortArmed |-> FALSE, overdue |-> FALSE, lastError |-> NoError,
           fetches |-> 0, waits |-> <<>>, thrown |-> NoError]

RECURSIVE Pow2(_)
Pow2(n) == IF n <= 0 THEN 1 ELSE 2 * Pow2(n - 1)

\* line 89
BackoffMs(attempt) == 500 * Pow2(attempt - 1)

\* the loop test with "<" in place of "<="
LoopTest_stopsEarly(c, attempt) ==
    IF attempt < c.attempts
    THEN [c EXCEPT !.pc = "fetch", !.attempt = attempt, !.abortArmed = TRUE,
                   !.overdue = FALSE, !.fetches = @ + 1]
    ELSE [c EXCEPT !.pc = "threw", !.attempt = attempt, !.thrown = c.lastError]

\* lines 76-80: the loop test, then the attempt's fetch() with its abort timer;
\* line 93 when the loop is over
LoopTest(c, attempt) ==
    IF attempt <= c.attempts
    THEN [c EXCEPT !.pc = "fetch", !.attempt = attempt, !.abortArmed = TRUE,
                   !.overdue = FALSE, !.fetches = @ + 1]
    ELSE [c EXCEPT !.pc = "threw", !.attempt = attempt, !.thrown = c.lastError]

\* a catch that rethrows a non-success status instead of retrying
Caught_statusIsFinal(c, kind) ==
    IF kind = "status"
    THEN [c EXCEPT !.pc = "threw", !.lastError = ErrorAt(kind, c.attempt),
                   !.thrown = ErrorAt(kind, c.attempt)]
    ELSE [c EXCEPT !.pc = "sleep", !.lastError = ErrorAt(kind, c.attempt)]

\* lines 86-90: the catch block up to its await
Caught(c, kind) ==
    [c EXCEPT !.pc = "sleep", !.lastError = ErrorAt(kind, c.attempt)]

CallFetchWithRetry ==
    /\ call.pc = "idle"
    /\ call' = LoopTest(call, 1)
    /\ UNCHANGED schedVars

\* fetch() rejects: no connection, DNS failure, ...
FetchFails ==
    /\ call.pc = "fetch"
    /\ call' = Caught(call, "network")
    /\ UNCHANGED schedVars

\* the abort timer of line 79 fires while fetch() is pending
TimeoutAborts ==
    /\ call.pc = "fetch"
    /\ call.abortArmed
    /\ call' = Caught([call EXCEPT !.abortArmed = FALSE], "abort")
    /\ UNCHANGED schedVars

\* fetch() resolves with the response's status line and headers: line 81
\* clears the abort timer, lines 82-84 throw on a status that is not 2xx
HeadersArrive ==
    /\ call.pc = "fetch"
    /\ \E ok \in BOOLEAN :
          LET cleared == [call EXCEPT !.abortArmed = FALSE]
          IN  call' = IF ok THEN [cleared EXCEPT !.pc = "body"]
                      ELSE Caught(cleared, "status")
    /\ UNCHANGED schedVars

\* timeoutMs have passed since the attempt began, the body still being read
DeadlinePasses ==
    /\ call.pc = "body"
    /\ ~call.overdue
    /\ call' = [call EXCEPT !.overdue = TRUE]
    /\ UNCHANGED schedVars

\* response.json() resolves: line 85 returns it
BodyParsed ==
    /\ call.pc = "body"
    /\ ~call.failing
    /\ call' = [call EXCEPT !.pc = "returned"]
    /\ UNCHANGED schedVars

\* response.json() rejects: the connection broke, or the body is not JSON
BodyFails ==
    /\ call.pc = "body"
    /\ call' = Caught(call, "body")
    /\ UNCHANGED schedVars

\* sleep(backoffMs) resolves: the loop's increment and test
SleepDone ==
    /\ call.pc = "sleep"
    /\ call' = LoopTest([call EXCEPT !.waits = Append(@, BackoffMs(call.attempt))],
                        call.attempt + 1)
    /\ UNCHANGED schedVars

-----------------------------------------------------------------------------
(* The functions of utils.ts and logOnce's update, called on their own *)

NoProbe == [fn |-> "none"]

\* entries of a response: with the target's id or another or none, in
\* London/GB, in a London elsewhere, in another city, or with no location
SelectEntries ==
    { Entry(id, loc, Observation(Num(10), JNull)) :
        id \in {Str(DEFAULT_TARGET_ID), Str("other"), JNull},
        loc \in {London, Location("London", "CA"), Paris, JNull} }

RECURSIVE SeqsUpTo(_, _)
SeqsUpTo(S, n) ==
    IF n = 0 THEN {<<>>}
    ELSE LET shorter == SeqsUpTo(S, n - 1)
         IN  shorter \cup { Append(q, x) : q \in shorter, x \in S }

SelectInit ==
    /\ phase = "start"
    /\ exitCode = 0
    /\ now = 0
    /\ pollMinutes = 1
    /\ configOk = TRUE
    /\ sleepLeft = 0
    /\ timerLeft = -1
    /\ cyc = [s \in Slots |-> Idle]
    /\ logs = [d \in Days |-> <<>>]
    /\ aggs = [d \in Days |-> Absent]
    /\ call = NoCall
    /\ \E entries \in SeqsUpTo(SelectEntries, MaxEntries),
          targetId \in {DEFAULT_TARGET_ID, "52.0,0.0"} :
          probe = [fn |-> "selectLocation", entries |-> entries,
                   targetId |-> targetId, done |-> FALSE, out |-> NoEntry]

\* logOnce line 119: const entry = selectLocation(data, targetId)
CallSelectLocation ==
    /\ probe.fn = "selectLocation"
    /\ ~probe.done
    /\ probe' = [probe EXCEPT !.done = TRUE,
                              !.out = selectLocation(probe.entries, probe.targetId)]
    /\ UNCHANGED progVars

SelectSpec == SelectInit /\ [][CallSelectLocation]_vars

\* the records logOnce builds from the feed's observations
SampleRecords ==
    { BuildRecord(Entry(Str(DEFAULT_TARGET_ID), London, o), DEFAULT_TARGET_ID) :
        o \in Observations }

\* what an aggregate file can hold when readDailyHigh opens it: nothing
\* readable, or an aggregate written by an earlier cycle
LoadFiles ==
    {Absent, Unreadable, Truncated, Corrupt}
    \cup { Stringify(DailyHigh(d, DEFAULT_TIMEZONE, n, h.temp, h.at, Num(10), JNull)) :
             d \in Days, n \in 1 .. MaxSamples,
             h \in { [temp |-> JNull, at |-> JNull],
                     [temp |-> Num(10), at |-> Str("2024-05-01T09:00:00")] } }

LoadInit ==
    /\ phase = "start"
    /\ exitCode = 0
    /\ now = 0
    /\ pollMinutes = 1
    /\ configOk = TRUE
    /\ sleepLeft = 0
    /\ timerLeft = -1
    /\ cyc = [s \in Slots |-> Idle]
    /\ logs = [d \in Days |-> <<>>]
    /\ aggs = [d \in Days |-> Absent]
    /\ call = NoCall
    /\ \E file \in LoadFiles, dateLocal \in Days,
          timeZone \in {DEFAULT_TIMEZONE, "UTC"}, record \in SampleRecords :
          probe = [fn |-> "readDailyHigh", file |-> file, dateLocal |-> dateLocal,
                   timeZone |-> timeZone, record |-> record, done |-> FALSE,
                   out |-> NoDailyHigh, upd |-> NoDailyHigh]

\* logOnce lines 157-182: the aggregate is loaded and the cycle's record
\* folded into it
CallReadDailyHigh ==
    /\ probe.fn = "readDailyHigh"
    /\ ~probe.done
    /\ LET dailyHigh == readDailyHigh(probe.file, probe.dateLocal, probe.timeZone)
       IN  probe' = [probe EXCEPT
                       !.done = TRUE,
                       !.out = dailyHigh,
                       !.upd = UpdatedDailyHigh(dailyHigh, probe.record,
                                                probe.dateLocal, probe.timeZone)]
    /\ UNCHANGED progVars

LoadSpec == LoadInit /\ [][CallReadDailyHigh]_vars

\* the highs a day can have reached: none yet, 10 with or without its
\* timestamp, 15
UpdateHighs ==
    { [temp |-> JNull, at |-> JNull],
      [temp |-> Num(10), at |-> Str("2024-05-01T09:00:00")],
      [temp |-> Num(10), at |-> JNull],
      [temp |-> Num(15), at |-> Str("2024-05-01T12:00:00")] }

\* the aggregates readDailyHigh can return: the zero-valued one, and those
\* written after one or more samples
UpdateAggregates ==
    { FreshDailyHigh(d, DEFAULT_TIMEZONE) : d \in Days }
    \cup { DailyHigh(d, DEFAULT_TIMEZONE, n, h.temp, h.at, h.temp, h.at) :
             d \in Days, n \in 1 .. MaxSamples, h \in UpdateHighs }

\* samples below, at and above those highs, with and without a timestamp,
\* and samples without a temperature
UpdateRecords ==
    { [id |-> DEFAULT_TARGET_ID, city |-> Str("London"),
       temperatureC |-> t, validTimeLocal |-> at] :
        t \in {JNull, Num(5), Num(10), Num(15)},
        at \in {JNull, Str("2024-05-01T15:00:00")} }

UpdateInit ==
    /\ phase = "start"
    /\ exitCode = 0
    /\ now = 0
    /\ pollMinutes = 1
    /\ configOk = TRUE
    /\ sleepLeft = 0
    /\ timerLeft = -1
    /\ cyc = [s \in Slots |-> Idle]
    /\ logs = [d \in Days |-> <<>>]
    /\ aggs = [d \in Days |-> Absent]
    /\ call = NoCall
    /\ \E dailyHigh \in UpdateAggregates, record \in UpdateRecords :
          probe = [fn |-> "update", dailyHigh |-> dailyHigh, record |-> record,
                   done |-> FALSE, out |-> NoDailyHigh]

\* logOnce lines 159-182 on the aggregate readDailyHigh returned
FoldSample ==
    /\ probe.fn = "update"
    /\ ~probe.done
    /\ probe' = [probe EXCEPT
                    !.done = TRUE,
                    !.out = UpdatedDailyHigh(probe.dailyHigh, probe.record,
                                             probe.dailyHigh.date_local,
                                             probe.dailyHigh.timezone)]
    /\ UNCHANGED progVars

UpdateSpec == UpdateInit /\ [][FoldSample]_vars

-----------------------------------------------------------------------------
(* The specifications *)

Init ==
    /\ phase = "start"
    /\ exitCode = 0
    /\ now \in {0, MinuteMs - 1}
    /\ pollMinutes = 1
    /\ configOk \in BOOLEAN
    /\ sleepLeft = 0
    /\ timerLeft = -1
    /\ cyc = [s \in Slots |-> Idle]
    /\ logs = [d \in Days |-> <<>>]
    /\ aggs = [d \in Days |-> Absent]
    /\ call = NoCall
    /\ probe = NoProbe

Next ==
    \/ StartLogger
    \/ AlignmentElapses
    \/ FirstCycleSettles
    \/ FirstCycleRejects
    \/ Tick
    \/ AdvanceClock
    \/ \E s \in Slots :
          \/ MkdirDone(s)
          \/ MkdirFails(s)
          \/ FetchRejects(s)
          \/ FetchResolves(s)
          \/ AppendDone(s)
          \/ AppendFails(s)
          \/ ReadDone(s)
          \/ WriteDone(s)
          \/ WriteFails(s)
          \/ TimerCycleSettles(s)
          \/ TimerCycleRejects(s)

Spec == Init /\ [][Next]_vars

\* The event loop runs every callback that is ready: a timer that is due
\* fires, an I/O operation that was started completes one way or the other,
\* and the clock moves on.
Fairness ==
    /\ WF_vars(FirstCycleSettles)
    /\ WF_vars(FirstCycleRejects)
    /\ WF_vars(Tick)
    /\ WF_vars(AdvanceClock)
    /\ \A s \in Slots :
          /\ WF_vars(MkdirDone(s))
          /\ WF_vars(FetchRejects(s) \/ FetchResolves(s))
          /\ WF_vars(AppendDone(s))
          /\ WF_vars(ReadDone(s))
          /\ WF_vars(WriteDone(s))
          /\ WF_vars(TimerCycleSettles(s))
          /\ WF_vars(TimerCycleRejects(s))

LiveSpec == Spec /\ Fairness

\* Spec on a disk that never refuses an operation
DiskOkNext ==
    \/ StartLogger
    \/ AlignmentElapses
    \/ FirstCycleSettles
    \/ FirstCycleRejects
    \/ Tick
    \/ AdvanceClock
    \/ \E s \in Slots :
          \/ MkdirDone(s)
          \/ FetchRejects(s)
          \/ FetchResolves(s)
          \/ AppendDone(s)
          \/ ReadDone(s)
          \/ WriteDone(s)
          \/ TimerCycleSettles(s)
          \/ TimerCycleRejects(s)

DiskOkSpec == Init /\ [][DiskOkNext]_vars

\* The scheduler against the wall clock: every start time and poll interval
\* tried, the feed down (every fetchWithRetry ends in its throw).
ClockInit ==
    /\ phase = "start"
    /\ exitCode = 0
    /\ now \in StartTimes
    /\ pollMinutes \in 1 .. MaxPollMinutes
    /\ configOk = TRUE
    /\ sleepLeft = 0
    /\ timerLeft = -1
    /\ cyc = [s \in Slots |-> Idle]
    /\ logs = [d \in Days |-> <<>>]
    /\ aggs = [d \in Days |-> Absent]
    /\ call = NoCall
    /\ probe = NoProbe

ClockNext ==
    \/ StartLogger
    \/ AlignmentElapses
    \/ FirstCycleSettles
    \/ FirstCycleRejects
    \/ Tick
    \/ AdvanceClock
    \/ \E s \in Slots :
          \/ MkdirDone(s)
          \/ MkdirFails(s)
          \/ FetchRejects(s)
          \/ TimerCycleSettles(s)
          \/ TimerCycleRejects(s)

ClockSpec == ClockInit /\ [][ClockNext]_vars

FetchInit ==
    /\ phase = "start"
    /\ exitCode = 0
    /\ now = 0
    /\ pollMinutes = 1
    /\ configOk = TRUE
    /\ sleepLeft = 0
    /\ timerLeft = -1
    /\ cyc = [s \in Slots |-> Idle]
    /\ logs = [d \in Days |-> <<>>]
    /\ aggs = [d \in Days |-> Absent]
    /\ \E n \in 1 .. MaxAttemptsArg, f \in BOOLEAN :
          call = [NoCall EXCEPT !.attempts = n, !.failing = f]
    /\ probe = NoProbe

FetchNext ==
    \/ CallFetchWithRetry
    \/ FetchFails
    \/ TimeoutAborts
    \/ HeadersArrive
    \/ DeadlinePasses
    \/ BodyParsed
    \/ BodyFails
    \/ SleepDone

FetchSpec == FetchInit /\ [][FetchNext]_vars

\* Every promise the call awaits settles: fetch() by the abort timer at the
\* latest, response.json() when the body ends or the connection does,
\* sleep() when its timer fires.
FetchFairness ==
    /\ WF_vars(CallFetchWithRetry)
    /\ WF_vars(FetchFails \/ TimeoutAborts \/ HeadersArrive)
    /\ WF_vars(BodyParsed \/ BodyFails)
    /\ WF_vars(SleepDone)

FetchLiveSpec == FetchSpec /\ FetchFairness

-----------------------------------------------------------------------------
(* Claims *)

ListedFailures == {"fetchExhausted", "notArray", "notFound", "missingData"}

\* a cycle has ended in one of the four cycle failures
CycleFailure == \E s \in Slots : Settled(cyc[s]) /\ cyc[s].why \in ListedFailures

\* a cycle has ended in an error of another kind that nothing caught
OtherErrorEscaped ==
    \E s \in Slots : cyc[s].pc = "threw" /\ cyc[s].why \notin ListedFailures

CycleStarting == \E s \in Slots : cyc[s].pc = "mkdir"

\* C1: once a cycle has ended in fetch exhaustion, a non-array response, a
\* location not found or missing location/observation data - the first cycle
\* or one started by the timer - new cycles start again and again for ever,
\* in every run in which no error of another kind escapes a cycle.
C1_SchedulerSurvivesCycleFailure ==
    [](CycleFailure => (<>OtherErrorEscaped \/ []<>CycleStarting))

\* the first cycle has ended in fetch exhaustion, the timer not yet armed
C1_Witness ==
    /\ phase = "firstCycle"
    /\ cyc[1].pc = "failed"
    /\ cyc[1].why = "fetchExhausted"
    /\ timerLeft = -1

\* C2 (as claimed): the samples value of a day's aggregate file never
\* decreases from one content of the file to the next.
C2_SamplesNeverDecrease ==
    [][\A d \in Days :
          (aggs[d].state = "json" /\ aggs'[d].state = "json")
              => aggs'[d].json.samples >= aggs[d].json.samples]_vars

NumericTemps(log) ==
    { log[i].temperatureC.n : i \in {j \in 1 .. Len(log) : IsNumber(log[j].temperatureC)} }

MaxOf(S) == CHOOSE x \in S : \A y \in S : x >= y

\* C3 (as claimed): with no cycle in progress, every aggregate file holds
\* as high_temperatureC the maximum numeric temperatureC of its day's log,
\* and null when the log has none.
C3_HighIsMaximum ==
    (\A s \in Slots : cyc[s].pc = "idle")
        => \A d \in Days :
              aggs[d].state = "json"
                  => LET temps == NumericTemps(logs[d])
                     IN  aggs[d].json.high_temperatureC =
                             IF temps = {} THEN JNull ELSE Num(MaxOf(temps))

\* C4: a call whose every attempt fails never returns and never makes more
\* than "attempts" attempts; it ends by throwing, after exactly "attempts"
\* attempts, the error of the last of them.
C4_ExactlyNAttemptsThenLastError ==
    call.failing
        => /\ call.pc # "returned"
           /\ call.fetches <= call.attempts
           /\ call.pc = "threw"
                 => /\ call.fetches = call.attempts
                    /\ call.thrown = call.lastError
                    /\ call.thrown.at = call.attempts
                    /\ call.thrown.kind # "undefined"

\* the default three attempts have all failed and the call has thrown
C4_Witness ==
    /\ call.failing
    /\ call.attempts = 3
    /\ call.pc = "threw"
    /\ call.fetches = 3

\* C5 (as claimed): waits happen only between attempts, the k-th being
\* 500 * 2^(k-1) ms: when the call throws it has waited once less than it
\* has made attempts (500 then 1000 ms for three attempts).
C5_WaitsOnlyBetweenAttempts ==
    call.pc = "threw"
        => /\ Len(call.waits) = call.fetches - 1
           /\ \A k \in 1 .. Len(call.waits) : call.waits[k] = 500 * Pow2(k - 1)

\* C6: a cycle that ends in a caught failure came there from its first
\* awaits only (idle, mkdir, fetch, failed), and no step it took on that
\* path changed a log or an aggregate file.
C6_FailedCycleLeavesFilesAlone ==
    [][\A s \in Slots :
          (cyc'[s] # cyc[s] /\ cyc'[s].pc \in {"mkdir", "fetch", "failed"})
              => /\ UNCHANGED <<logs, aggs>>
                 /\ cyc'[s].pc = "mkdir" => cyc[s].pc = "idle"
                 /\ cyc'[s].pc = "fetch" => cyc[s].pc = "mkdir"
                 /\ cyc'[s].pc = "failed" => cyc[s].pc \in {"mkdir", "fetch"}]_vars

\* a cycle started by the timer has ended for missing location/observation
\* data while the files hold an earlier cycle's sample
C6_Witness ==
    /\ phase = "running"
    /\ \E s \in Slots : cyc[s].pc = "failed" /\ cyc[s].why = "missingData"
    /\ \E d \in Days : Len(logs[d]) > 0 /\ aggs[d].state = "json"

\* C7 (as claimed): with the API key or the geocodes unset the process never
\* gets to Running, and when it ends its exit code is not 0.
C7_MissingConfigIsFatal ==
    ~configOk => /\ phase # "running"
                 /\ phase = "exited" => exitCode # 0

\* C8 (as claimed): every cycle starts at a multiple of the poll interval.
C8_CyclesStartOnBoundaries ==
    [][(\E s \in Slots : cyc[s].pc = "idle" /\ cyc'[s].pc = "mkdir")
          => now' % IntervalMs(pollMinutes) = 0]_vars

\* C9: the delay startLogger computes is at least 0 and less than the
\* interval, brings the clock to a multiple of the interval, and is 0 exactly
\* on a boundary; with delay 0 the first cycle starts in the same step, with
\* a delay startLogger sleeps and no cycle has started.
C9_AlignmentDelay ==
    [][(phase = "start" /\ phase' # "start")
          => LET interval == IntervalMs(pollMinutes)
                 delay == sleepLeft'
             IN  /\ 0 <= delay /\ delay < interval
                 /\ (now + delay) % interval = 0
                 /\ delay = 0 <=> now % interval = 0
                 /\ delay = 0 => /\ phase' = "firstCycle"
                                 /\ cyc'[1].pc = "mkdir"
                                 /\ now' = now
                 /\ delay > 0 => /\ phase' = "aligning"
                                 /\ \A s \in Slots : cyc'[s].pc = "idle"]_vars

\* the process started one ms after a boundary and sleeps for the rest of
\* a two-minute interval
C9_Witness ==
    /\ phase = "aligning"
    /\ pollMinutes = 2
    /\ now = 1
    /\ sleepLeft = 2 * MinuteMs - 1

\* C10: when the timer is due, the tick starts a new cycle although an
\* earlier cycle is still in progress.
C10_TickDoesNotWait ==
    ( /\ phase = "running"
      /\ MicrotasksDrained
      /\ timerLeft = 0
      /\ FreeSlots # {}
      /\ \E s \in Slots : InProgress(cyc[s]) )
        => ENABLED Tick

\* two cycles in progress have both read the same day's aggregate and
\* neither has written it yet
C10_Witness ==
    \E s, t \in Slots :
        /\ s # t
        /\ cyc[s].pc = "write"
        /\ cyc[t].pc = "write"
        /\ cyc[s].day = cyc[t].day
        /\ cyc[s].upd.samples = cyc[t].upd.samples

\* C11: selectLocation returns the first entry whose id is the target id if
\* there is one, wherever the London/GB entries are; else the first entry
\* in London, GB; else nothing.
C11_SelectPolicy ==
    (probe.fn = "selectLocation" /\ probe.done)
        => LET entries == probe.entries
               byId == { i \in 1 .. Len(entries) : entries[i].id = Str(probe.targetId) }
               inLondon == { i \in 1 .. Len(entries) :
                               /\ entries[i].loc # JNull
                               /\ entries[i].loc = London }
           IN  /\ byId # {}
                     => \E i \in byId : /\ probe.out = entries[i]
                                        /\ \A j \in byId : i <= j
               /\ (byId = {} /\ inLondon # {})
                     => \E i \in inLondon : /\ probe.out = entries[i]
                                            /\ \A j \in inLondon : i <= j
               /\ (byId = {} /\ inLondon = {}) => probe.out = NoEntry

\* the entry with the target's id was returned although a London/GB entry
\* with another id comes before it
C11_Witness ==
    /\ probe.fn = "selectLocation"
    /\ probe.done
    /\ Len(probe.entries) = 2
    /\ probe.entries[1].loc = London
    /\ probe.entries[1].id # Str(probe.targetId)
    /\ probe.entries[2].id = Str(probe.targetId)
    /\ probe.out = probe.entries[2]

\* C12: readDailyHigh on a file that is missing, unreadable, empty or not
\* JSON returns the zero-valued aggregate seeded with the date key and time
\* zone it was given, and the cycle that loaded it writes samples = 1.
C12_LoadFallsBackToZero ==
    ( /\ probe.fn = "readDailyHigh"
      /\ probe.done
      /\ probe.file.state \in {"absent", "unreadable", "empty", "corrupt"} )
        => /\ probe.out.date_local = probe.dateLocal
           /\ probe.out.timezone = probe.timeZone
           /\ probe.out.samples = 0
           /\ probe.out.high_temperatureC = JNull
           /\ probe.out.high_at_validTimeLocal = JNull
           /\ probe.out.last_seen_temperatureC = JNull
           /\ probe.out.last_seen_validTimeLocal = JNull
           /\ probe.upd.samples = 1

\* a file that does not parse was loaded for 2024-05-01 in zone UTC
C12_Witness ==
    /\ probe.fn = "readDailyHigh"
    /\ probe.done
    /\ probe.file = Corrupt
    /\ probe.dateLocal = "2024-05-01"
    /\ probe.timeZone = "UTC"
    /\ probe.upd.samples = 1

\* C13: a day whose log holds exactly one record, with numeric temperature t
\* and timestamp ts as the feed reported them, and whose aggregate file has
\* been written, has samples = 1, high_temperatureC = t and
\* high_at_validTimeLocal = ts in that file.
C13_FirstSampleOfADay ==
    \A d \in Days :
        ( /\ Len(logs[d]) = 1
          /\ aggs[d].state = "json"
          /\ IsNumber(logs[d][1].temperatureC)
          /\ logs[d][1].validTimeLocal # JNull )
            => /\ \E o \in Observations :
                     /\ logs[d][1].temperatureC = o.temperature
                     /\ logs[d][1].validTimeLocal = o.validTimeLocal
               /\ aggs[d].json.date_local = d
               /\ aggs[d].json.samples = 1
               /\ aggs[d].json.high_temperatureC = logs[d][1].temperatureC
               /\ aggs[d].json.high_at_validTimeLocal = logs[d][1].validTimeLocal

\* the first cycle has sampled 15 degrees at noon of 2024-05-01, written both
\* files and returned
C13_Witness ==
    /\ phase = "running"
    /\ \A s \in Slots : cyc[s].pc = "idle"
    /\ Len(logs["2024-05-01"]) = 1
    /\ logs["2024-05-01"][1].temperatureC = Num(15)
    /\ logs["2024-05-01"][1].validTimeLocal = Str("2024-05-01T12:00:00")
    /\ aggs["2024-05-01"].state = "json"
    /\ logs["2024-05-02"] = <<>>

\* C14 (as claimed): no error raised inside a cycle escapes it: no logOnce
\* promise is ever rejected, and the process never ends.
C14_NoErrorEscapesACycle ==
    /\ \A s \in Slots : cyc[s].pc # "threw"
    /\ phase # "exited"
    /\ exitCode = 0

\* C15 (as claimed): the high pair becomes the sample's temperature and
\* timestamp (null when the sample has no timestamp) exactly when the sample
\* has a temperature and the high is unset or strictly smaller; otherwise
\* both keep their values.
C15_HighPairUpdate ==
    (probe.fn = "update" /\ probe.done)
        => LET old == probe.dailyHigh
               sample == probe.record
               replaces == /\ IsNumber(sample.temperatureC)
                           /\ \/ old.high_temperatureC = JNull
                              \/ sample.temperatureC.n > old.high_temperatureC.n
           IN  IF replaces
               THEN /\ probe.out.high_temperatureC = sample.temperatureC
                    /\ probe.out.high_at_validTimeLocal = sample.validTimeLocal
               ELSE /\ probe.out.high_temperatureC = old.high_temperatureC
                    /\ probe.out.high_at_validTimeLocal = old.high_at_validTimeLocal

C16_Finished == call.pc \in {"returned", "threw"}

C17_NoAttemptOutlivesTimeout ==
    ~(call.pc \in {"fetch", "body"} /\ call.overdue)

\* C18: a step that changes a day's log or aggregate file is the append or
\* the write of a cycle whose day key is that day, and the aggregate a cycle
\* computes comes from its own day's file; the files of the other days stay
\* as they were.
C18_OnlyTheCyclesDay ==
    [][/\ \A d \in Days :
             (logs'[d] # logs[d] \/ aggs'[d] # aggs[d])
                 => \E s \in Slots :
                       /\ cyc[s].day = d
                       /\ cyc[s].pc \in {"append", "write"}
                       /\ cyc'[s] # cyc[s]
                       /\ \A e \in Days \ {d} : logs'[e] = logs[e] /\ aggs'[e] = aggs[e]
       /\ \A s \in Slots :
             (cyc[s].pc = "read" /\ cyc'[s].pc = "write")
                 => /\ cyc'[s].upd.date_local = cyc[s].day
                    /\ cyc'[s].upd.samples \in {1, aggs[cyc[s].day].json.samples + 1}]_vars

\* the day key has rolled over: both days have a log and an aggregate, and
\* one cycle has just written the later day's
C18_Witness ==
    /\ \A d \in Days : Len(logs[d]) > 0 /\ aggs[d].state = "json"
    /\ aggs["2024-05-01"].json.samples = 1
    /\ aggs["2024-05-02"].json.samples = 1
    /\ \E s \in Slots : cyc[s].pc = "done"

\* two cycles are in progress at once
C19_Overlap == \E s, t \in Slots : s # t /\ InProgress(cyc[s]) /\ InProgress(cyc[t])

C19_SamplesAtMostRecords ==
    \A d \in Days : aggs[d].state = "json" => aggs[d].json.samples <= Len(logs[d])

C19_SamplesEqualRecords ==
    \A d \in Days : IF aggs[d].state = "json"
                     THEN aggs[d].json.samples = Len(logs[d])
                     ELSE logs[d] = <<>>

\* C19: on a disk that takes every write, a day's aggregate never counts
\* more samples than its log has records, however the cycles interleave;
\* and as long as no two cycles have been in progress at once, whenever no
\* cycle is in progress each day's count equals its number of records.
C19_SamplesBoundedByLog ==
    /\ []C19_SamplesAtMostRecords
    /\ \/ <>C19_Overlap
       \/ []((\A s \in Slots : cyc[s].pc = "idle") => C19_SamplesEqualRecords)

\* overlapping cycles have left a count below the number of records
C19_Witness ==
    /\ \A s \in Slots : cyc[s].pc = "idle"
    /\ \E d \in Days : /\ aggs[d].state = "json"
                        /\ Len(logs[d]) = 3
                        /\ aggs[d].json.samples = 2

\* C20: until the first cycle has returned the timer is not armed and no
\* other cycle exists: before it starts nothing is in progress, while it is
\* in progress it is the only one, the timer is armed by a step that finds
\* the first cycle returned and leaves no cycle in progress, and every
\* cycle started later is started by that timer coming due.
C20_BeforeTimer ==
    /\ phase \in {"start", "aligning"}
          => /\ timerLeft = -1
             /\ \A s \in Slots : cyc[s].pc = "idle"
    /\ phase = "firstCycle"
          => /\ timerLeft = -1
             /\ cyc[1].pc # "idle"
             /\ \A s \in Slots \ {1} : cyc[s].pc = "idle"

\* the step arms the timer
C20_Arms == timerLeft = -1 /\ timerLeft' # -1

\* the step starts a cycle after the first one was started
C20_StartsLaterCycle ==
    /\ phase \in {"firstCycle", "running"}
    /\ \E s \in Slots : cyc[s].pc = "idle" /\ cyc'[s].pc = "mkdir"

C20_FirstCycleRunsAlone ==
    /\ []C20_BeforeTimer
    /\ [][C20_Arms => (/\ phase = "firstCycle"
                       /\ Returned(cyc[1])
                       /\ \A s \in Slots : cyc'[s].pc = "idle")]_vars
    /\ [][C20_StartsLaterCycle => (phase = "running" /\ timerLeft = 0)]_vars

\* the first cycle is about to write its aggregate, the timer still unarmed
C20_Witness ==
    /\ phase = "firstCycle"
    /\ cyc[1].pc = "write"
    /\ cyc[1].upd.samples = 1
    /\ timerLeft = -1

====
